---- MODULE Spec2Model ----
(***************************************************************************)
(* heckel_diff (src/src/lib.rs): the Heckel symbol-table diff.  One state  *)
(* machine: the two line streams are read (passes 1-2), unique lines are   *)
(* matched (pass 3), the BEGIN/END sentinels are added, matches are        *)
(* propagated forwards (pass 4) and backwards (pass 5), and the function   *)
(* returns (pass 6 is a comment followed by Ok(())).                       *)
(*                                                                         *)
(* Vec indices are the 0-based indices of the source: At(v, i) is v[i].    *)
(* An Rc<RefCell<SymbolEntry>> is modelled by the key of the symbol table  *)
(* under which the entry was inserted: the table holds exactly one Rc per  *)
(* key, so Rc::ptr_eq is equality of keys.                                 *)
(***************************************************************************)
EXTENDS Integers, Sequences, FiniteSets, TLC

\* Longest stream read, in lines.
MaxLen == 3
\* Number of distinct line texts a stream can yield.
NumLines == 3
\* Number of values of the hash (2^64 in the source, scaled down: there are
\* more line texts than hash values).
HashSpace == 2

Lines == 0..(NumLines - 1)
IoErrors == {"InvalidData", "Interrupted"}

VARIABLES N, O, symbols, OA, NA, pc, i, result
vars == <<N, O, symbols, OA, NA, pc, i, result>>

---------------------------------------------------------------------------
\* Items a stream has yielded: Ok(line) or Err(e).
OkItem(line) == [ok |-> TRUE, line |-> line]
ErrItem(e) == [ok |-> FALSE, error |-> e]

\* The lines read from a stream, in order.
LinesOf(stream) == SelectSeq(stream, LAMBDA it : it.ok)
TextAt(stream, k) == LinesOf(stream)[k].line
Failed(stream) == \E k \in 1..Len(stream) : ~stream[k].ok

\* Vec indexing with the source's 0-based indices.
At(v, k) == v[k + 1]
Set(v, k, x) == [v EXCEPT ![k + 1] = x]
InBounds(v, k) == k >= 0 /\ k < Len(v)

Entry(h) == [tag |-> "Entry", rec |-> h]
Reference(k) == [tag |-> "Reference", idx |-> k]
IsEntry(sym) == sym.tag = "Entry"
IsReference(sym) == sym.tag = "Reference"

None == [some |-> FALSE]
Some(x) == [some |-> TRUE, val |-> x]

hash_str(s) == s % HashSpace

increment(c) == IF c = "Zero" THEN "One" ELSE "Many"

Running == [tag |-> "Running"]
Ok(v) == [tag |-> "Ok", value |-> v]
Err(e) == [tag |-> "Err", error |-> e]

---------------------------------------------------------------------------
Init ==
    /\ N = << >>
    /\ O = << >>
    /\ symbols = << >>
    /\ OA = << >>
    /\ NA = << >>
    /\ pc = "pass1"
    /\ i = 0
    /\ result = Running

\* symbols.entry(hash).and_modify(NC.increment()).or_insert_with(..) of pass 1
ObserveNew(tab, line) ==
    LET hash == hash_str(line) IN
    IF hash \in DOMAIN tab
    THEN [tab EXCEPT ![hash].NC = increment(@)]
    ELSE tab @@ (hash :> [OC |-> "Zero", NC |-> "One", OLNO |-> None, line |-> line])

\* ObserveOld with OLNO set only when the record is created.
ObserveOldInsertOnly(tab, line, line_num) ==
    LET hash == hash_str(line) IN
    IF hash \in DOMAIN tab
    THEN [tab EXCEPT ![hash].OC = increment(@)]
    ELSE tab @@ (hash :> [OC |-> "One", NC |-> "Zero", OLNO |-> Some(line_num),
                          line |-> line])

\* symbols.entry(hash).and_modify(OC.increment(); OLNO = ..).or_insert_with(..)
ObserveOld(tab, line, line_num) ==
    LET hash == hash_str(line) IN
    IF hash \in DOMAIN tab
    THEN [tab EXCEPT ![hash].OC = increment(@), ![hash].OLNO = Some(line_num)]
    ELSE tab @@ (hash :> [OC |-> "One", NC |-> "Zero", OLNO |-> Some(line_num),
                          line |-> line])

\* first pass, one line of N
Pass1Line(line) ==
    /\ pc = "pass1"
    /\ Len(NA) < MaxLen
    /\ N' = Append(N, OkItem(line))
    /\ symbols' = ObserveNew(symbols, line)
    /\ NA' = Append(NA, Entry(hash_str(line)))
    /\ UNCHANGED <<O, OA, pc, i, result>>

\* first pass, `line?` on an Err item
Pass1Err(e) ==
    /\ pc = "pass1"
    /\ N' = Append(N, ErrItem(e))
    /\ result' = Err(e)
    /\ pc' = "return"
    /\ UNCHANGED <<O, symbols, OA, NA, i>>

\* first pass, N.lines() is exhausted
Pass1End ==
    /\ pc = "pass1"
    /\ pc' = "pass2"
    /\ UNCHANGED <<N, O, symbols, OA, NA, i, result>>

\* second pass, one line of O
Pass2Line(line) ==
    /\ pc = "pass2"
    /\ Len(OA) < MaxLen
    /\ O' = Append(O, OkItem(line))
    /\ symbols' = ObserveOld(symbols, line, Len(OA) + 1)
    /\ OA' = Append(OA, Entry(hash_str(line)))
    /\ UNCHANGED <<N, NA, pc, i, result>>

\* Pass2Err with the failed read skipped instead of returned.
Pass2ErrSkipped(e) ==
    /\ pc = "pass2"
    /\ Len(O) <= MaxLen
    /\ O' = Append(O, ErrItem(e))
    /\ UNCHANGED <<N, symbols, OA, NA, pc, i, result>>

\* second pass, `line?` on an Err item
Pass2Err(e) ==
    /\ pc = "pass2"
    /\ O' = Append(O, ErrItem(e))
    /\ result' = Err(e)
    /\ pc' = "return"
    /\ UNCHANGED <<N, symbols, OA, NA, i>>

\* second pass, O.lines() is exhausted
Pass2End ==
    /\ pc = "pass2"
    /\ pc' = "pass3"
    /\ i' = 0
    /\ UNCHANGED <<N, O, symbols, OA, NA, result>>

Panic ==
    /\ pc' = "panic"
    /\ UNCHANGED <<N, O, symbols, OA, NA, i, result>>

\* UniqueInBoth without the test of NC.
UniqueInOld(entry) == entry.OC = "One"

\* entry.OC == Occurrences::One && entry.NC == Occurrences::One
UniqueInBoth(entry) == entry.OC = "One" /\ entry.NC = "One"

\* third pass, one iteration of the loop over NA
Pass3Step ==
    /\ pc = "pass3"
    /\ i < Len(NA)
    /\ LET sym == At(NA, i)
           line_num == i + 1
       IN IF ~IsEntry(sym)
          THEN Panic                                   \* as_entry_mut
          ELSE LET entry == symbols[sym.rec] IN
               IF ~UniqueInBoth(entry)
               THEN /\ i' = i + 1
                    /\ UNCHANGED <<N, O, symbols, OA, NA, pc, result>>
               ELSE IF ~entry.OLNO.some
                    THEN Panic                         \* OLNO.unwrap()
                    ELSE LET OLNO == entry.OLNO.val IN
                         IF ~InBounds(OA, OLNO - 1)
                         THEN Panic                    \* OA[OLNO - 1]
                         ELSE /\ NA' = Set(NA, i, Reference(OLNO))
                              /\ OA' = Set(OA, OLNO - 1, Reference(line_num))
                              /\ i' = i + 1
                              /\ UNCHANGED <<N, O, symbols, pc, result>>

Pass3End ==
    /\ pc = "pass3"
    /\ i >= Len(NA)
    /\ pc' = "sentinels"
    /\ UNCHANGED <<N, O, symbols, OA, NA, i, result>>

\* EndOfOA one short, as if NA already held its END.
EndOfOAOneShort(na) == Reference(Len(na) - 1)

\* OA.push(Symbol::Reference(NA.len())), NA already holding its BEGIN
EndOfOA(na) == Reference(Len(na))
\* NA.push(Symbol::Reference(OA.len() - 1)), OA already holding its END
EndOfNA(oa) == Reference(Len(oa) - 1)

\* add BEGIN lines, add END lines
Sentinels ==
    /\ pc = "sentinels"
    /\ LET OA1 == <<Reference(0)>> \o OA
           NA1 == <<Reference(0)>> \o NA
           OA2 == Append(OA1, EndOfOA(NA1))
           NA2 == Append(NA1, EndOfNA(OA2))
       IN /\ OA' = OA2
          /\ NA' = NA2
    /\ pc' = "pass4"
    /\ i' = 0
    /\ UNCHANGED <<N, O, symbols, result>>

\* Rc::ptr_eq(entry_na, entry_oa) on two Symbol::Entry
PtrEq(a, b) == a.rec = b.rec

\* fourth pass, one iteration of `for i in 0..(NA.len() - 1)`
Pass4Step ==
    /\ pc = "pass4"
    /\ i < Len(NA) - 1
    /\ IF IsReference(At(NA, i)) /\ IsEntry(At(NA, i + 1))
       THEN LET j == At(NA, i).idx IN
            IF ~InBounds(OA, j + 1)
            THEN Panic                                 \* OA[j + 1]
            ELSE IF IsEntry(At(OA, j + 1)) /\ PtrEq(At(NA, i + 1), At(OA, j + 1))
                 THEN /\ NA' = Set(NA, i + 1, Reference(j + 1))
                      /\ OA' = Set(OA, j + 1, Reference(i + 1))
                      /\ i' = i + 1
                      /\ UNCHANGED <<N, O, symbols, pc, result>>
                 ELSE /\ i' = i + 1
                      /\ UNCHANGED <<N, O, symbols, OA, NA, pc, result>>
       ELSE /\ i' = i + 1
            /\ UNCHANGED <<N, O, symbols, OA, NA, pc, result>>

\* first value of `(1..(NA.len() - 1)).rev()`
Pass5First(na) == Len(na) - 2

Pass4End ==
    /\ pc = "pass4"
    /\ i >= Len(NA) - 1
    /\ pc' = "pass5"
    /\ i' = Pass5First(NA)
    /\ UNCHANGED <<N, O, symbols, OA, NA, result>>

\* OldPrev as pass 4 has it.
OldNext(j) == j + 1

\* the index j - 1 of OA that pass 5 looks at and writes
OldPrev(j) == j - 1

\* fifth pass, one iteration of `for i in (1..(NA.len() - 1)).rev()`
Pass5Step ==
    /\ pc = "pass5"
    /\ i >= 1
    /\ IF IsReference(At(NA, i)) /\ IsEntry(At(NA, i - 1))
       THEN LET j == At(NA, i).idx IN
            IF ~InBounds(OA, OldPrev(j))
            THEN Panic                                 \* j - 1, OA[j - 1]
            ELSE IF /\ IsEntry(At(OA, OldPrev(j)))
                    /\ PtrEq(At(NA, i - 1), At(OA, OldPrev(j)))
                 THEN /\ NA' = Set(NA, i - 1, Reference(OldPrev(j)))
                      /\ OA' = Set(OA, OldPrev(j), Reference(i - 1))
                      /\ i' = i - 1
                      /\ UNCHANGED <<N, O, symbols, pc, result>>
                 ELSE /\ i' = i - 1
                      /\ UNCHANGED <<N, O, symbols, OA, NA, pc, result>>
       ELSE /\ i' = i - 1
            /\ UNCHANGED <<N, O, symbols, OA, NA, pc, result>>

Pass5End ==
    /\ pc = "pass5"
    /\ i < 1
    /\ pc' = "pass6"
    /\ UNCHANGED <<N, O, symbols, OA, NA, i, result>>

\* sixth pass: the operations the function hands back, the unit value ()
SixthPass(oa, na) == << >>

Pass6 ==
    /\ pc = "pass6"
    /\ result' = Ok(SixthPass(OA, NA))
    /\ pc' = "return"
    /\ UNCHANGED <<N, O, symbols, OA, NA, i>>

Next ==
    \/ \E line \in Lines : Pass1Line(line)
    \/ \E e \in IoErrors : Pass1Err(e)
    \/ Pass1End
    \/ \E line \in Lines : Pass2Line(line)
    \/ \E e \in IoErrors : Pass2Err(e)
    \/ Pass2End
    \/ Pass3Step
    \/ Pass3End
    \/ Sentinels
    \/ Pass4Step
    \/ Pass4End
    \/ Pass5Step
    \/ Pass5End
    \/ Pass6

Spec == Init /\ [][Next]_vars

---------------------------------------------------------------------------
\* Vocabulary of the properties.

NewLen == Len(LinesOf(N))
OldLen == Len(LinesOf(O))

\* Number of lines of a stream whose text is c.
Count(stream, c) == Cardinality({k \in 1..Len(LinesOf(stream)) : TextAt(stream, k) = c})
Saturated(n) == IF n = 0 THEN "Zero" ELSE IF n = 1 THEN "One" ELSE "Many"

\* Both streams were read to their end without an error.
BothRead == pc \notin {"pass1", "pass2"} /\ ~Failed(N) /\ ~Failed(O)
\* OA and NA hold their sentinels.
Sentineled == pc \in {"pass4", "pass5", "pass6"} \/ (pc = "return" /\ result.tag = "Ok")
\* Pass 5 has run to its end.
AfterPass5 == pc = "pass6" \/ (pc = "return" /\ result.tag = "Ok")

Slots(v) == 0..(Len(v) - 1)
RealSlots(v) == 1..(Len(v) - 2)

\* The Resolved positions of NA point to increasing positions of OA.
Monotone(na) ==
    \A i1, i2 \in Slots(na) :
        (i1 < i2 /\ IsReference(At(na, i1)) /\ IsReference(At(na, i2)))
            => At(na, i1).idx < At(na, i2).idx

\* A real line of NA that pass 4 or pass 5 resolved: its record is not unique.
Propagated(k) ==
    /\ IsReference(At(NA, k))
    /\ ~UniqueInBoth(symbols[hash_str(TextAt(N, k))])

---------------------------------------------------------------------------
\* C1: the diff heckel_diff returns mentions every old line number
\* 1..len(old) and every new line number 1..len(new) in exactly one emitted
\* operation (Insert, Delete, Move or Unchanged).
MentionsOld(op, k) == op.kind \in {"Delete", "Move", "Unchanged"} /\ op.old = k
MentionsNew(op, k) == op.kind \in {"Insert", "Move", "Unchanged"} /\ op.new = k
C1_EveryLineInExactlyOneOperation ==
    (pc = "return" /\ result.tag = "Ok") =>
        /\ \A k \in 1..OldLen :
             Cardinality({p \in DOMAIN result.value : MentionsOld(result.value[p], k)}) = 1
        /\ \A k \in 1..NewLen :
             Cardinality({p \in DOMAIN result.value : MentionsNew(result.value[p], k)}) = 1

---------------------------------------------------------------------------
\* The stream whose read failed, and the error it yielded.
FailedStream == IF Failed(N) THEN "new" ELSE "old"
FailedError == IF Failed(N) THEN N[Len(N)].error ELSE O[Len(O)].error
\* The stream an error value names, if it names one.
StreamOfError(r) == IF "stream" \in DOMAIN r THEN r.stream ELSE "unnamed"
\* No pass after the failed read has touched OA or NA.
NothingBeyondTheRead ==
    /\ Len(NA) = NewLen /\ Len(OA) = OldLen
    /\ \A k \in 1..Len(NA) : IsEntry(NA[k])
    /\ \A k \in 1..Len(OA) : IsEntry(OA[k])
    /\ Failed(N) => O = << >>

---------------------------------------------------------------------------
\* Position of the run in the function, and what is left of the current loop.
Stage ==
    CASE pc = "pass1" -> 1
      [] pc = "pass2" -> 2
      [] pc = "pass3" -> 3
      [] pc = "sentinels" -> 4
      [] pc = "pass4" -> 5
      [] pc = "pass5" -> 6
      [] pc = "pass6" -> 7
      [] pc = "return" -> 8
      [] OTHER -> 9
Remaining ==
    CASE pc = "pass3" -> Len(NA) - i
      [] pc = "pass4" -> Len(NA) - 1 - i
      [] pc = "pass5" -> i
      [] OTHER -> 0

\* C3: once both streams are read without error heckel_diff cannot fail: no
\* index of OA or NA is out of bounds, as_entry_mut never meets a Reference,
\* OLNO.unwrap() never meets None (no run reaches the panic state), every
\* state before the return has a next step, every step of passes 3 to 6 moves
\* to a later pass or shortens what is left of the loop, and the function
\* returns Ok.
C3_CannotFailOnceRead ==
    /\ [](/\ pc # "panic"
          /\ (pc # "return" => ENABLED Next)
          /\ ((pc = "return" /\ ~Failed(N) /\ ~Failed(O)) => result.tag = "Ok"))
    /\ [][(Stage >= 3) =>
            \/ Stage' > Stage /\ Stage' <= 8
            \/ Stage' = Stage /\ Remaining' < Remaining /\ Remaining' >= 0]_vars

\* A run over duplicate lines on both sides returned Ok.
C3_Witness ==
    /\ pc = "return"
    /\ result.tag = "Ok"
    /\ \E c \in Lines : Count(N, c) >= 2 /\ Count(O, c) >= 2
    /\ \E c \in Lines : Count(N, c) = 1 /\ Count(O, c) = 1

---------------------------------------------------------------------------
\* C4: every line text that occurs exactly once in old (line j) and exactly
\* once in new (line i) has NA[i] Resolved to j and OA[j] Resolved to i after
\* pass 5, whatever the other lines are.
C4_UniqueLinesAreMatched ==
    AfterPass5 =>
        \A c \in Lines :
            (Count(O, c) = 1 /\ Count(N, c) = 1) =>
                \A k \in 1..NewLen, j \in 1..OldLen :
                    (TextAt(N, k) = c /\ TextAt(O, j) = c) =>
                        At(NA, k) = Reference(j) /\ At(OA, j) = Reference(k)

---------------------------------------------------------------------------
\* C5: after passes 1-2 there is exactly one record per distinct line text
\* of the two files: two positions of OA and NA reference the same record if
\* and only if their texts are equal.
C5_OneRecordPerText ==
    (pc = "pass3" /\ i = 0) =>
        /\ \A k1, k2 \in 1..NewLen :
             (NA[k1].rec = NA[k2].rec) <=> (TextAt(N, k1) = TextAt(N, k2))
        /\ \A j1, j2 \in 1..OldLen :
             (OA[j1].rec = OA[j2].rec) <=> (TextAt(O, j1) = TextAt(O, j2))
        /\ \A k \in 1..NewLen, j \in 1..OldLen :
             (NA[k].rec = OA[j].rec) <=> (TextAt(N, k) = TextAt(O, j))
        /\ Cardinality(DOMAIN symbols)
             = Cardinality({c \in Lines : Count(N, c) + Count(O, c) > 0})

---------------------------------------------------------------------------
\* C6: after passes 1-2 the counts of every record are the saturated numbers
\* of occurrences of its text (NC in new, OC in old), and when OC is One,
\* OLNO is the line number of the single occurrence of the text in old.
C6_CountsAreOccurrencesOfTheText ==
    BothRead =>
        \A h \in DOMAIN symbols :
            LET entry == symbols[h] IN
            /\ entry.NC = Saturated(Count(N, entry.line))
            /\ entry.OC = Saturated(Count(O, entry.line))
            /\ entry.OC = "One" =>
                 /\ entry.OLNO.some
                 /\ entry.OLNO.val \in 1..OldLen
                 /\ TextAt(O, entry.OLNO.val) = entry.line

---------------------------------------------------------------------------
\* C7: as pass 4 does for the first real lines from BEGIN, pass 5 resolves
\* the last real lines of new and old to each other from END when both are
\* Unresolved and reference the same record: pass 5 ends with no such pair.
C7_EndAnchorsTheLastLines ==
    (pc = "pass6" /\ Len(NA) >= 3 /\ Len(OA) >= 3) =>
        ~(/\ IsEntry(At(NA, Len(NA) - 2))
          /\ IsEntry(At(OA, Len(OA) - 2))
          /\ PtrEq(At(NA, Len(NA) - 2), At(OA, Len(OA) - 2)))

---------------------------------------------------------------------------
\* C8 as stated: after pass 5 any two Resolved positions i1 < i2 of NA point
\* to old indices j1 < j2.
C8_ResolutionIsMonotonic == AfterPass5 => Monotone(NA)

\* C8 amended: propagation keeps the order: a step of pass 4 or pass 5 taken
\* while the Resolved positions of NA point to increasing old indices leaves
\* them increasing (so the resolution after pass 5 is monotonic when the
\* matches of pass 3 are, and only then).
C8_PropagationKeepsOrder ==
    [][(pc \in {"pass4", "pass5"} /\ Monotone(NA)) => Monotone(NA')]_vars

\* Pass 5 is over, the resolution is monotonic, and it holds lines matched by
\* pass 3 and lines matched by propagation.
C8_Witness ==
    /\ pc = "pass6"
    /\ Monotone(NA)
    /\ \E k \in RealSlots(NA) : Propagated(k)
    /\ \E k \in RealSlots(NA) : IsReference(At(NA, k)) /\ ~Propagated(k)

---------------------------------------------------------------------------
\* C9: in every step of passes 3, 4 and 5 a Resolved slot of OA or NA
\* (sentinels included) keeps its value, and every slot that changes was
\* Unresolved before the step and is Resolved after it.
KeptOrResolved(v, w) ==
    /\ Len(w) = Len(v)
    /\ \A k \in 1..Len(v) :
         /\ IsReference(v[k]) => w[k] = v[k]
         /\ w[k] # v[k] => IsEntry(v[k]) /\ IsReference(w[k])
C9_ResolutionIsOneWay ==
    [][(pc \in {"pass3", "pass4", "pass5"}) =>
         (KeptOrResolved(NA, NA') /\ KeptOrResolved(OA, OA'))]_vars

\* Pass 5 runs on arrays that hold a line matched by pass 3 and a line
\* matched by propagation.
C9_Witness ==
    /\ pc = "pass5"
    /\ i = 1
    /\ \E k \in RealSlots(NA) : Propagated(k)
    /\ \E k \in RealSlots(NA) : IsReference(At(NA, k)) /\ ~Propagated(k)
    /\ \E k \in RealSlots(NA) : IsEntry(At(NA, k))

---------------------------------------------------------------------------
\* C10: the matching is a mutual partial bijection. During and at the end of
\* pass 3, in 1-based line numbers, and from the insertion of the sentinels
\* on, in array indices: NA[i] is Resolved to j if and only if OA[j] is
\* Resolved to i, every target lies inside the sibling array, no two
\* positions share a target, BEGIN is paired with BEGIN and END with END.
Mutual(v, w, first) ==
    \A k \in first..(first + Len(v) - 1) :
        LET sym == v[k - first + 1] IN
        IsReference(sym) =>
            /\ sym.idx \in first..(first + Len(w) - 1)
            /\ w[sym.idx - first + 1] = Reference(k)
C10_MutualPartialBijection ==
    /\ pc \in {"pass3", "sentinels"} => Mutual(NA, OA, 1) /\ Mutual(OA, NA, 1)
    /\ Sentineled =>
         /\ Mutual(NA, OA, 0) /\ Mutual(OA, NA, 0)
         /\ At(NA, 0) = Reference(0) /\ At(OA, 0) = Reference(0)
         /\ At(NA, Len(NA) - 1) = Reference(Len(OA) - 1)
         /\ At(OA, Len(OA) - 1) = Reference(Len(NA) - 1)
         /\ \A i1, i2 \in Slots(NA) :
              (IsReference(At(NA, i1)) /\ IsReference(At(NA, i2))
                 /\ At(NA, i1).idx = At(NA, i2).idx) => i1 = i2

\* Pass 5 is over on files of different lengths that hold a line matched by
\* pass 3, a line matched by propagation and a line left Unresolved.
C10_Witness ==
    /\ pc = "pass6"
    /\ Len(NA) # Len(OA)
    /\ \E k \in RealSlots(NA) : Propagated(k)
    /\ \E k \in RealSlots(NA) : IsReference(At(NA, k)) /\ ~Propagated(k)
    /\ \E k \in RealSlots(NA) : IsEntry(At(NA, k))

====
